---- MODULE Spec2Model ----
(***************************************************************************)
(* A model of ebm_utils/analysis/changepoints.py: slope computation, the   *)
(* discontinuity detector and the non-monotonicity detector.               *)
(*                                                                         *)
(* numpy floats are kept exact.  A float is a record [kind, num, den]:     *)
(*   kind = "fin"  the rational num/den (den > 0, lowest terms)            *)
(*   kind = "nan"  IEEE NaN                                                *)
(*   kind = "inf"  IEEE infinity of sign num                               *)
(*   kind = "bool" a Python bool, num = 1 for True and 0 for False         *)
(*   kind = "exp"  the real number e^(num/den), the value of np.exp        *)
(* Rounding and overflow of float64 are not modelled.                      *)
(***************************************************************************)
EXTENDS Integers, Sequences, FiniteSets, TLC

VARIABLES
    pc,                 \* position of the running function
    np_invalid,         \* numpy's process-wide setting for invalid-value errors
    invalid_before,     \* np_invalid when the running call of calc_slopes began
    x_arr, y_arr,       \* arguments of calc_slopes
    slopes,             \* local `slopes` of calc_slopes / find_discontinuities_in_sorted
    sorted_x, sorted_y, \* arguments of find_discontinuities_in_sorted
    y_true,             \* the outcome vector, in the order the caller gave it
    min_samples,        \* argument min_samples
    changepoints,       \* local `changepoints`: 0-based indices of nonzero slopes
    i,                  \* loop index of find_discontinuities_in_sorted
    window,             \* the last [prev, cp, next] passed to evaluate_discontinuity
    log_p_diff,         \* what evaluate_discontinuity returned for `window`
    discontinuities,    \* local `discontinuities` of find_discontinuities_in_sorted
    ebm_y_true,         \* argument y_true of find_discontinuities_from_ebm
    data_x,             \* data_df[predictor].values of the current feature
    embedding,          \* embeddings[:, j] of the current feature
    order,              \* local `order`: 0-based sample indices, ascending x
    j,                  \* feature index of the running loop
    ebm_discontinuities,\* local `discontinuities` of find_discontinuities_from_ebm
    discontinuities_df, \* the table find_discontinuities_from_ebm returns
    counter_causal_only,\* argument of find_non_monotonicities_from_ebm
    my_slopes,          \* local `my_slopes` after line 84: the signs
    sorted_x_nz,        \* local `sorted_x_nz`
    detected,           \* what det.find_changepoints returned for the feature
    cp_pos,             \* position of the loop of line 87 in `detected`
    results,            \* local `results`
    det_calls,          \* the features det.find_changepoints was called for
    results_df          \* the table find_non_monotonicities_from_ebm returns

calcVars == <<invalid_before, x_arr, y_arr>>

sortedVars == <<sorted_x, sorted_y, y_true, min_samples>>

loopVars == <<changepoints, i, window, log_p_diff, discontinuities>>

featureVars == <<data_x, embedding, order>>

ebmVars == <<ebm_y_true, j, ebm_discontinuities, discontinuities_df>>

nmLocals == <<my_slopes, sorted_x_nz, detected, cp_pos>>

nmVars == <<counter_causal_only, nmLocals, results, det_calls, results_df>>

vars == <<pc, np_invalid, invalid_before, x_arr, y_arr, slopes,
          sorted_x, sorted_y, y_true, min_samples, changepoints, i, window,
          log_p_diff, discontinuities, data_x, embedding, order,
          ebm_y_true, j, ebm_discontinuities, discontinuities_df,
          counter_causal_only, my_slopes, sorted_x_nz, detected, cp_pos, results,
          det_calls, results_df>>

----------------------------------------------------------------------------
(* Bounds of the model *)

MaxLen == 3

NumSamples == 5

NumFeatures == 2

Vals == {0, 1, 2}

Xvals == {0, 1, 2, 3}

Yvals == {0, 1}

MinSamplesChoices == {2, 3}

EbmXvals == {0, 1, 2, 10}

NmSamples == 4

\* spacings of the feature values of the non-monotonicity inputs; with the wide
\* one every slope is below the 1e-8 cut
XSteps == {1, 200000000}

ErrModes == {"ignore", "warn", "raise"}

----------------------------------------------------------------------------
(* Exact float arithmetic *)

Abs(n) == IF n < 0 THEN -n ELSE n

Sign(n) == IF n < 0 THEN -1 ELSE IF n > 0 THEN 1 ELSE 0

Min(a, b) == IF a < b THEN a ELSE b

Max(a, b) == IF a > b THEN a ELSE b

RECURSIVE GCD(_, _)
GCD(a, b) == IF b = 0 THEN a ELSE GCD(b, a % b)

NaN == [kind |-> "nan", num |-> 0, den |-> 0]

Inf(s) == [kind |-> "inf", num |-> s, den |-> 0]

\* the finite float n/d, d # 0
Fin(n, d) ==
    LET g == GCD(Abs(n), Abs(d))
        s == IF d < 0 THEN -1 ELSE 1
    IN  [kind |-> "fin", num |-> s * (n \div g), den |-> s * (d \div g)]

Num(n) == [kind |-> "fin", num |-> n, den |-> 1]

PyBool(b) == [kind |-> "bool", num |-> (IF b THEN 1 ELSE 0), den |-> 1]

IsNum(v) == v.kind \in {"fin", "bool"}

\* np.isfinite
IsFinite(v) == IsNum(v)

\* bool(v): zero is false, everything else (NaN and infinities included) is true
Truthy(v) == ~(IsNum(v) /\ v.num = 0)

\* v == 0.0
EqZero(v) == IsNum(v) /\ v.num = 0

\* a / b under numpy: 0/0 is NaN (invalid), x/0 is an infinity (divide)
FDiv(a, b) ==
    IF ~IsNum(a) \/ ~IsNum(b) THEN NaN
    ELSE IF b.num = 0
         THEN (IF a.num = 0 THEN NaN ELSE Inf(Sign(a.num)))
         ELSE Fin(a.num * b.den, a.den * b.num)

FAdd(a, b) ==
    IF a.kind = "nan" \/ b.kind = "nan" THEN NaN
    ELSE IF a.kind = "inf" /\ b.kind = "inf"
         THEN (IF a.num = b.num THEN a ELSE NaN)
    ELSE IF a.kind = "inf" THEN a
    ELSE IF b.kind = "inf" THEN b
    ELSE Fin(a.num * b.den + b.num * a.den, a.den * b.den)

FNeg(a) ==
    IF a.kind = "nan" THEN NaN
    ELSE IF a.kind = "inf" THEN Inf(-a.num)
    ELSE Fin(-a.num, a.den)

FSub(a, b) == FAdd(a, FNeg(b))

FMul(a, b) ==
    IF a.kind = "nan" \/ b.kind = "nan" THEN NaN
    ELSE IF a.kind = "inf" \/ b.kind = "inf"
         THEN (IF a.num = 0 \/ b.num = 0 THEN NaN
               ELSE Inf(Sign(a.num) * Sign(b.num)))
    ELSE Fin(a.num * b.num, a.den * b.den)

\* a > b; every comparison with NaN is false
FGt(a, b) ==
    IF a.kind = "nan" \/ b.kind = "nan" THEN FALSE
    ELSE IF a.kind = "inf" THEN (a.num = 1 /\ ~(b.kind = "inf" /\ b.num = 1))
    ELSE IF b.kind = "inf" THEN b.num = -1
    ELSE a.num * b.den > b.num * a.den

\* np.abs
FAbs(a) ==
    IF a.kind = "nan" THEN NaN
    ELSE IF a.kind = "inf" THEN Inf(1)
    ELSE Fin(Abs(a.num), a.den)

\* np.exp; of a finite float it is kept as the exponent
FExp(a) ==
    IF a.kind = "nan" THEN NaN
    ELSE IF a.kind = "inf" THEN (IF a.num = 1 THEN a ELSE Fin(0, 1))
    ELSE [kind |-> "exp", num |-> a.num, den |-> a.den]

\* e^(num/den) > 1 exactly when num/den > 0
ExpGtOne(e) == e.kind = "exp" /\ e.num > 0

----------------------------------------------------------------------------
(* calc_slopes *)

\* (y_arr[1:] - y_arr[:-1]) / (x_arr[1:] - x_arr[:-1])
RawSlopes(xs, ys) ==
    [k \in 1..(Len(xs) - 1) |->
        FDiv(Num(ys[k + 1] - ys[k]), Num(xs[k + 1] - xs[k]))]

\* a mask that catches NaN only (np.isnan in place of ~np.isfinite)
MaskNaNOnly(sl) ==
    [k \in 1..Len(sl) |-> IF sl[k].kind = "nan" THEN Num(0) ELSE sl[k]]

\* slopes[~np.isfinite(slopes)] = 0.0
MaskNonFinite(sl) ==
    [k \in 1..Len(sl) |-> IF IsFinite(sl[k]) THEN sl[k] ELSE Num(0)]

\* the value calc_slopes returns
calc_slopes(xs, ys) == MaskNonFinite(RawSlopes(xs, ys))

SeqsUpTo(S, n) == UNION {[1..m -> S] : m \in 1..n}

InitSlopes ==
    /\ pc = "cs_seterr_ignore"
    /\ np_invalid \in ErrModes
    /\ invalid_before = np_invalid
    /\ x_arr \in SeqsUpTo(Vals, MaxLen)
    /\ y_arr \in [1..Len(x_arr) -> Vals]
    /\ slopes = <<>>
    /\ sorted_x = <<>> /\ sorted_y = <<>> /\ y_true = <<>> /\ min_samples = 0
    /\ changepoints = <<>> /\ i = 0 /\ window = <<>> /\ log_p_diff = Num(0)
    /\ discontinuities = <<>>
    /\ data_x = <<>> /\ embedding = <<>> /\ order = <<>>
    /\ ebm_y_true = <<>> /\ j = 0 /\ ebm_discontinuities = <<>>
    /\ discontinuities_df = <<>>
    /\ counter_causal_only = FALSE
    /\ my_slopes = <<>> /\ sorted_x_nz = <<>> /\ detected = <<>> /\ cp_pos = 0
    /\ results = <<>> /\ det_calls = <<>> /\ results_df = <<>>

\* line 35: np.seterr(invalid="ignore")
CsSeterrIgnore ==
    /\ pc = "cs_seterr_ignore"
    /\ np_invalid' = "ignore"
    /\ pc' = "cs_divide"
    /\ UNCHANGED <<calcVars, slopes, sortedVars, loopVars,
                   featureVars, ebmVars, nmVars>>

\* line 36
CsDivide ==
    /\ pc = "cs_divide"
    /\ slopes' = RawSlopes(x_arr, y_arr)
    /\ pc' = "cs_mask"
    /\ UNCHANGED <<np_invalid, calcVars, sortedVars, loopVars,
                   featureVars, ebmVars, nmVars>>

\* line 37
CsMask ==
    /\ pc = "cs_mask"
    /\ slopes' = MaskNonFinite(slopes)
    /\ pc' = "cs_seterr_warn"
    /\ UNCHANGED <<np_invalid, calcVars, sortedVars, loopVars,
                   featureVars, ebmVars, nmVars>>

\* lines 38-39: np.seterr(invalid="warn"); return slopes
CsSeterrWarn ==
    /\ pc = "cs_seterr_warn"
    /\ np_invalid' = "warn"
    /\ pc' = "cs_returned"
    /\ UNCHANGED <<calcVars, slopes, sortedVars, loopVars,
                   featureVars, ebmVars, nmVars>>

NextSlopes == CsSeterrIgnore \/ CsDivide \/ CsMask \/ CsSeterrWarn

SpecSlopes == InitSlopes /\ [][NextSlopes]_vars

\* C2: calc_slopes returns len(x) - 1 entries; entry k is the quotient
\* (y[k+1] - y[k]) / (x[k+1] - x[k]) when the two x differ and exactly 0 when
\* they are equal, whatever the two y are.
C2_SlopesDefined ==
    pc = "cs_returned" =>
        /\ Len(slopes) = Len(x_arr) - 1
        /\ \A k \in 1..(Len(x_arr) - 1) :
              IF x_arr[k + 1] # x_arr[k]
              THEN slopes[k] = Fin(y_arr[k + 1] - y_arr[k], x_arr[k + 1] - x_arr[k])
              ELSE slopes[k] = Num(0)

\* a call that met x/0 with x # 0, 0/0 and an ordinary nonzero slope
C2_Witness ==
    /\ pc = "cs_returned"
    /\ Len(x_arr) = 3
    /\ \E k \in 1..2 : x_arr[k + 1] = x_arr[k] /\ y_arr[k + 1] # y_arr[k]
    /\ \E k \in 1..2 : x_arr[k + 1] # x_arr[k] /\ slopes[k].num # 0

\* C7: after calc_slopes returns, numpy's invalid-value setting is what it was
\* before the call.
C7_InvalidRestored == pc = "cs_returned" => np_invalid = invalid_before

----------------------------------------------------------------------------
(* evaluate_discontinuity_sample, evaluate_discontinuity *)

\* element of a 1-based sequence at a 0-based Python index
At(seq, idx) == seq[idx + 1]

\* lines 100-114, on floats
evaluate_discontinuity_sample(x_val, y_vals, yt, idx_before_mid, slope) ==
    LET begin_y_val == y_vals[1]
        end_y_val == y_vals[2]
        disc_val == IF Truthy(idx_before_mid) THEN begin_y_val ELSE end_y_val
        cont_val == FAdd(begin_y_val, FMul(x_val, slope))
    IN  IF EqZero(yt) THEN FSub(cont_val, disc_val) ELSE FSub(disc_val, cont_val)

\* lines 130-136: the call as the code writes it; the three last arguments are
\* passed in the order (sample <= changepoint, cont_slope, y_true[sample])
SampleCall(sx, yt, begin_x_val, y_vals, cont_slope, changepoint, sample) ==
    evaluate_discontinuity_sample(
        FSub(Num(At(sx, sample)), begin_x_val),
        y_vals,
        PyBool(sample <= changepoint),
        cont_slope,
        Num(At(yt, sample)))

\* lines 127-137: log_p_diff accumulated over range(from, to)
RECURSIVE SumSamples(_, _, _, _, _, _, _, _)
SumSamples(sx, yt, begin_x_val, y_vals, cont_slope, changepoint, from, to) ==
    IF from >= to THEN Num(0)
    ELSE FAdd(
            SumSamples(sx, yt, begin_x_val, y_vals, cont_slope, changepoint,
                       from, to - 1),
            SampleCall(sx, yt, begin_x_val, y_vals, cont_slope, changepoint,
                       to - 1))

\* lines 117-137; w = [prev_changepoint, changepoint, next_changepoint]
evaluate_discontinuity(sx, sy, yt, w) ==
    LET begin_y_val == Num(At(sy, w[1]))
        end_y_val == Num(At(sy, w[3]))
        begin_x_val == Num(At(sx, w[1]))
        end_x_val == Num(At(sx, w[3]))
        cont_slope == FDiv(FSub(end_y_val, begin_y_val), FSub(end_x_val, begin_x_val))
    IN  SumSamples(sx, yt, begin_x_val, <<begin_y_val, end_y_val>>, cont_slope,
                   w[2], w[1], w[3])

----------------------------------------------------------------------------
(* find_discontinuities_in_sorted *)

\* np.where(np.abs(slopes) > 0)[0]: the 0-based indices, ascending
RECURSIVE WhereNonzero(_, _)
WhereNonzero(sl, n) ==
    IF n = 0 THEN <<>>
    ELSE IF FGt(FAbs(sl[n]), Num(0))
         THEN Append(WhereNonzero(sl, n - 1), n - 1)
         ELSE WhereNonzero(sl, n - 1)

\* lines 154-157: changepoints[i + 1], or len(slopes) - 1 on IndexError
NextChangepoint(cps, sl, k) ==
    IF k + 1 < Len(cps) THEN At(cps, k + 1) ELSE Len(sl) - 1

\* the gate with log_p_diff >= 0 in place of log_p_diff > 0
KeepNonNegative(lpd, n_samples, min_s) ==
    ~FGt(Num(0), lpd) /\ lpd.kind # "nan" /\ n_samples > min_s

\* line 166
Keep(lpd, n_samples, min_s) == FGt(lpd, Num(0)) /\ n_samples > min_s

\* lines 168-175: the row [sorted_x[changepoint], n_samples, effect size, log_p_diff]
Row(sx, changepoint, n_samples, lpd) ==
    <<Num(At(sx, changepoint)), Num(n_samples), FExp(FDiv(lpd, Num(n_samples))), lpd>>

IsSorted(s) == \A k \in 1..(Len(s) - 1) : s[k] <= s[k + 1]

\* the embeddings a shape function can give a column: one contribution per
\* sample, equal for samples with equal feature value
EmbeddingsOf(col) ==
    {e \in [1..Len(col) -> Yvals] :
        \A a, b \in 1..Len(col) : col[a] = col[b] => e[a] = e[b]}

InitSorted ==
    /\ pc = "fd_start"
    /\ np_invalid = "warn"
    /\ invalid_before = np_invalid
    /\ x_arr = <<>> /\ y_arr = <<>>
    /\ slopes = <<>>
    /\ sorted_x \in {s \in SeqsUpTo(Xvals, NumSamples) : IsSorted(s)}
    /\ sorted_y \in EmbeddingsOf(sorted_x)
    /\ y_true \in [1..Len(sorted_x) -> {0, 1}]
    /\ min_samples \in MinSamplesChoices
    /\ changepoints = <<>> /\ i = 0 /\ window = <<>> /\ log_p_diff = Num(0)
    /\ discontinuities = <<>>
    /\ data_x = <<>> /\ embedding = <<>> /\ order = <<>>
    /\ ebm_y_true = <<>> /\ j = 0 /\ ebm_discontinuities = <<>>
    /\ discontinuities_df = <<>>
    /\ counter_causal_only = FALSE
    /\ my_slopes = <<>> /\ sorted_x_nz = <<>> /\ detected = <<>> /\ cp_pos = 0
    /\ results = <<>> /\ det_calls = <<>> /\ results_df = <<>>

\* lines 145-147
FdStart ==
    /\ pc = "fd_start"
    /\ discontinuities' = <<>>
    /\ slopes' = calc_slopes(sorted_x, sorted_y)
    /\ np_invalid' = "warn"
    /\ changepoints' = WhereNonzero(slopes', Len(slopes'))
    /\ i' = 0
    /\ pc' = "fd_loop"
    /\ UNCHANGED <<calcVars, sortedVars, window, log_p_diff,
                   featureVars, ebmVars, nmVars>>

\* lines 151-152: the first candidate is skipped
FdSkipFirst ==
    /\ pc = "fd_loop"
    /\ i < Len(changepoints)
    /\ i = 0
    /\ i' = i + 1
    /\ UNCHANGED <<pc, np_invalid, calcVars, slopes, sortedVars, changepoints,
                   window, log_p_diff, discontinuities,
                   featureVars, ebmVars, nmVars>>

\* lines 153-176: one iteration of the loop for a later candidate
FdEvaluate ==
    /\ pc = "fd_loop"
    /\ i < Len(changepoints)
    /\ i # 0
    /\ LET changepoint == At(changepoints, i)
           prev_changepoint == At(changepoints, i - 1)
           next_changepoint == NextChangepoint(changepoints, slopes, i)
           w == <<prev_changepoint, changepoint, next_changepoint>>
           n_samples == next_changepoint - prev_changepoint
       IN  /\ window' = w
           /\ IF changepoint > 0
              THEN LET lpd == evaluate_discontinuity(sorted_x, sorted_y, y_true, w)
                   IN  /\ log_p_diff' = lpd
                       /\ discontinuities' =
                            IF Keep(lpd, n_samples, min_samples)
                            THEN Append(discontinuities,
                                        Row(sorted_x, changepoint, n_samples, lpd))
                            ELSE discontinuities
                       /\ i' = i + 1
                       /\ pc' = pc
              ELSE \* line 122: the assertion fails
                   /\ pc' = "AssertionError"
                   /\ UNCHANGED <<log_p_diff, discontinuities, i>>
    /\ UNCHANGED <<np_invalid, calcVars, slopes, sortedVars, changepoints,
                   featureVars, ebmVars, nmVars>>

\* line 177
FdReturn ==
    /\ pc = "fd_loop"
    /\ i >= Len(changepoints)
    /\ pc' = "fd_returned"
    /\ UNCHANGED <<np_invalid, calcVars, slopes, sortedVars, loopVars,
                   featureVars, ebmVars, nmVars>>

NextSorted == FdStart \/ FdSkipFirst \/ FdEvaluate \/ FdReturn

SpecSorted == InitSorted /\ [][NextSorted]_vars

\* the score the specification defines for sample s of window w
ClaimedContribution(sx, sy, yt, w, s) ==
    LET beginY == Num(At(sy, w[1]))
        endY == Num(At(sy, w[3]))
        beginX == Num(At(sx, w[1]))
        endX == Num(At(sx, w[3]))
        contSlope == FDiv(FSub(endY, beginY), FSub(endX, beginX))
        continuousValue == FAdd(beginY, FMul(FSub(Num(At(sx, s)), beginX), contSlope))
        discontinuousValue == IF s <= w[2] THEN beginY ELSE endY
    IN  IF At(yt, s) = 0
        THEN FSub(continuousValue, discontinuousValue)
        ELSE FSub(discontinuousValue, continuousValue)

RECURSIVE ClaimedLogPDiff(_, _, _, _, _)
ClaimedLogPDiff(sx, sy, yt, w, to) ==
    IF to <= w[1] THEN Num(0)
    ELSE FAdd(ClaimedLogPDiff(sx, sy, yt, w, to - 1),
              ClaimedContribution(sx, sy, yt, w, to - 1))

\* C1: the log_p_diff evaluate_discontinuity returns for a window is the sum,
\* over the samples s of [prevCp, nextCp), of continuousValue - discontinuousValue
\* when y_true[s] = 0 and of discontinuousValue - continuousValue otherwise.
C1_LogPDiffIsClaimedSum ==
    window # <<>> =>
        log_p_diff = ClaimedLogPDiff(sorted_x, sorted_y, y_true, window, window[3])

RowOk(row) ==
    /\ FGt(row[2], Num(min_samples))
    /\ FGt(row[4], Num(0))
    /\ ExpGtOne(row[3])

\* the row of the candidate at 0-based index cp is in the list (candidates have
\* distinct feature values: each has a nonzero slope to its right)
HasRowFor(cp) ==
    \E r \in 1..Len(discontinuities) : discontinuities[r][1] = Num(At(sorted_x, cp))

\* C3: a candidate has a row exactly when it is not the first one, its
\* log_p_diff > 0 and nextCp - prevCp > min_samples; every row has more than
\* min_samples samples, a positive raw score and an effect size above 1.
C3_RowIffSignificant ==
    /\ \A r \in 1..Len(discontinuities) : RowOk(discontinuities[r])
    /\ (pc \in {"fd_loop", "fd_returned"} /\ i >= 1) =>
            ~HasRowFor(At(changepoints, 0))
    /\ Len(discontinuities) <= Max(0, i - 1)
    /\ (pc \in {"fd_loop", "fd_returned"} /\ window # <<>>) =>
            (HasRowFor(window[2]) <=>
                /\ FGt(log_p_diff, Num(0))
                /\ window[3] - window[1] > min_samples)

\* a row was emitted for the second candidate and the third candidate was
\* evaluated and dropped
C3_Witness ==
    /\ pc = "fd_returned"
    /\ Len(discontinuities) = 1
    /\ Len(changepoints) >= 3

\* C8: the changepoint lies strictly inside every evaluated window, and is at
\* most the last slope index but one.
C8_ChangepointInsideWindow ==
    window # <<>> =>
        /\ 0 <= window[1] /\ window[1] < window[2] /\ window[2] < window[3]
        /\ window[2] >= 1
        /\ window[2] <= Len(slopes) - 2

\* C9: nextCp is the following candidate when there is one and the last sample
\* index otherwise, and is always an index of the sample sequence.
C9_NextChangepoint ==
    window # <<>> =>
        /\ window[3] = IF i < Len(changepoints)
                       THEN At(changepoints, i)
                       ELSE Len(sorted_x) - 1
        /\ window[3] \in 0..(Len(sorted_x) - 1)

----------------------------------------------------------------------------
(* find_discontinuities_from_ebm *)

\* position a comes before position b in ascending order of col (ties keep
\* their order: numpy sorts arrays this short by insertion)
Before(col, a, b) == col[a] < col[b] \/ (col[a] = col[b] /\ a < b)

\* np.argsort: the 0-based sample indices in ascending order of col
ArgSort(col) ==
    [k \in 1..Len(col) |->
        (CHOOSE p \in 1..Len(col) :
            Cardinality({q \in 1..Len(col) : Before(col, q, p)}) = k - 1) - 1]

\* arr[order]
Take(arr, ord) == [k \in 1..Len(ord) |-> At(arr, ord[k])]

Reverse(seq) == [k \in 1..Len(seq) |-> seq[Len(seq) + 1 - k]]

PredictorNames == <<"x0", "x1", "x2", "x3">>

DigitChars == <<"0", "1", "2", "3", "4", "5", "6", "7", "8", "9">>

RECURSIVE Digits(_)
Digits(n) ==
    IF n < 10 THEN <<DigitChars[n + 1]>>
    ELSE Append(Digits(n \div 10), DigitChars[(n % 10) + 1])

\* decimal digits of r/d, 0 <= r < d, by long division
RECURSIVE FracDigits(_, _, _)
FracDigits(r, d, places) ==
    IF r = 0 \/ places = 0 THEN <<>>
    ELSE <<DigitChars[((r * 10) \div d) + 1]>> \o FracDigits((r * 10) % d, d, places - 1)

\* the text numpy gives a float64 that is stacked with a string column:
\* 10.0 -> "10.0", a sequence of characters
FloatStr(v) ==
    IF v.kind = "nan" THEN <<"n", "a", "n">>
    ELSE IF v.kind = "inf"
         THEN (IF v.num < 0 THEN <<"-">> ELSE <<>>) \o <<"i", "n", "f">>
    ELSE LET whole == Abs(v.num) \div v.den
             frac == FracDigits(Abs(v.num) % v.den, v.den, 16)
         IN  (IF v.num < 0 THEN <<"-">> ELSE <<>>)
                \o Digits(whole) \o <<".">>
                \o (IF frac = <<>> THEN <<"0">> ELSE frac)

\* lines 195-207: np.hstack of the feature name column and the float rows makes
\* every cell a string.  The text of the effect size is not spelled out: the
\* cell keeps the exact value.
TableRow(predictor, row) ==
    <<predictor, FloatStr(row[1]), FloatStr(row[2]), row[3], FloatStr(row[4])>>

TableRows(predictor, rows) == [r \in 1..Len(rows) |-> TableRow(predictor, rows[r])]

CharCode(c) ==
    IF c = "-" THEN 45
    ELSE IF c = "." THEN 46
    ELSE IF c \in {"a", "f", "i", "n"} THEN 97
    ELSE 47 + (CHOOSE d \in 1..10 : DigitChars[d] = c)

\* a > b for Python strings: by code point, a proper prefix is smaller
RECURSIVE StrGt(_, _)
StrGt(a, b) ==
    IF a = <<>> THEN FALSE
    ELSE IF b = <<>> THEN TRUE
    ELSE IF CharCode(Head(a)) # CharCode(Head(b))
         THEN CharCode(Head(a)) > CharCode(Head(b))
         ELSE StrGt(Tail(a), Tail(b))

\* line 212: sort_values("P-Ratio", ascending=False) on a column of strings
SortByPRatioDesc(rows) ==
    [k \in 1..Len(rows) |->
        rows[CHOOSE p \in 1..Len(rows) :
                Cardinality({q \in 1..Len(rows) :
                    \/ StrGt(rows[q][5], rows[p][5])
                    \/ (rows[q][5] = rows[p][5] /\ q < p)}) = k - 1]]

EbmColumns ==
    {c \in [1..NumSamples -> EbmXvals] : IsSorted(c) \/ IsSorted(Reverse(c))}

InitEbm ==
    /\ pc = "ebm_loop"
    /\ np_invalid = "warn"
    /\ invalid_before = np_invalid
    /\ x_arr = <<>> /\ y_arr = <<>>
    /\ slopes = <<>>
    /\ sorted_x = <<>> /\ sorted_y = <<>> /\ y_true = <<>>
    /\ min_samples \in MinSamplesChoices
    /\ changepoints = <<>> /\ i = 0 /\ window = <<>> /\ log_p_diff = Num(0)
    /\ discontinuities = <<>>
    /\ data_x = <<>> /\ embedding = <<>> /\ order = <<>>
    /\ ebm_y_true \in [1..NumSamples -> {0, 1}]
    /\ j = 0
    /\ ebm_discontinuities = <<>>
    /\ discontinuities_df = <<>>
    /\ counter_causal_only = FALSE
    /\ my_slopes = <<>> /\ sorted_x_nz = <<>> /\ detected = <<>> /\ cp_pos = 0
    /\ results = <<>> /\ det_calls = <<>> /\ results_df = <<>>

\* lines 186-192: the column and the embedding of feature j are read, sorted by
\* x, and passed with y_true as it is to find_discontinuities_in_sorted
EbmFeature ==
    /\ pc = "ebm_loop"
    /\ j < NumFeatures
    /\ \E col \in EbmColumns :
          \E emb \in EmbeddingsOf(col) :
              /\ data_x' = col
              /\ embedding' = emb
              /\ order' = ArgSort(col)
    /\ sorted_x' = Take(data_x', order')
    /\ sorted_y' = Take(embedding', order')
    /\ y_true' = ebm_y_true
    /\ pc' = "fd_start"
    /\ UNCHANGED <<np_invalid, calcVars, slopes, min_samples, loopVars, ebmVars, nmVars>>

\* lines 193-207; the iteration's locals are dead after it and are cleared
EbmExtend ==
    /\ pc = "fd_returned"
    /\ ebm_discontinuities' =
          IF Len(discontinuities) = 0
          THEN ebm_discontinuities
          ELSE ebm_discontinuities \o TableRows(PredictorNames[j + 1], discontinuities)
    /\ j' = j + 1
    /\ pc' = "ebm_loop"
    /\ data_x' = <<>> /\ embedding' = <<>> /\ order' = <<>>
    /\ sorted_x' = <<>> /\ sorted_y' = <<>> /\ y_true' = <<>>
    /\ slopes' = <<>> /\ changepoints' = <<>> /\ i' = 0 /\ window' = <<>>
    /\ log_p_diff' = Num(0) /\ discontinuities' = <<>>
    /\ UNCHANGED <<np_invalid, calcVars, min_samples, ebm_y_true, discontinuities_df, nmVars>>

\* lines 208-212.  pd.DataFrame(np.array([]), columns=<five names>) raises
\* ValueError: the empty array has one column.
EbmReturn ==
    /\ pc = "ebm_loop"
    /\ j >= NumFeatures
    /\ IF ebm_discontinuities = <<>>
       THEN pc' = "ValueError" /\ UNCHANGED discontinuities_df
       ELSE /\ discontinuities_df' = SortByPRatioDesc(ebm_discontinuities)
            /\ pc' = "ebm_returned"
    /\ UNCHANGED <<np_invalid, calcVars, slopes, sortedVars, loopVars, featureVars,
                   ebm_y_true, j, ebm_discontinuities, nmVars>>

NextEbm ==
    \/ EbmFeature
    \/ FdStart \/ FdSkipFirst \/ FdEvaluate \/ FdReturn
    \/ EbmExtend
    \/ EbmReturn

SpecEbm == InitEbm /\ [][NextEbm]_vars

DigitValue(c) == (CHOOSE d \in 1..10 : DigitChars[d] = c) - 1

\* the number a decimal text "ddd.ddd" of the table denotes
RECURSIVE DecimalValue(_, _, _, _)
DecimalValue(str, whole, frac, scale) ==
    IF str = <<>> THEN Fin(whole * scale + frac, scale)
    ELSE IF Head(str) = "." THEN DecimalValue(Tail(str), whole, 0, 1)
    ELSE IF scale = 0
         THEN DecimalValue(Tail(str), whole * 10 + DigitValue(Head(str)), 0, 0)
         ELSE DecimalValue(Tail(str), whole, frac * 10 + DigitValue(Head(str)),
                           scale * 10)

PRatioOf(row) == DecimalValue(row[5], 0, 0, 0)

\* C4: the returned table is in descending order of the numeric raw score.
C4_TableSortedByScore ==
    pc = "ebm_returned" =>
        \A r \in 1..(Len(discontinuities_df) - 1) :
            ~FGt(PRatioOf(discontinuities_df[r + 1]), PRatioOf(discontinuities_df[r]))

\* C10: the outcome that scores sorted position s is the outcome of the sample
\* that the sort put at position s.
C10_OutcomeFollowsSort ==
    (pc = "fd_loop" /\ window # <<>>) =>
        \A smp \in window[1]..(window[3] - 1) :
            At(y_true, smp) = At(ebm_y_true, At(order, smp))

----------------------------------------------------------------------------
(* is_counter_causal, find_non_monotonicities_from_ebm *)

\* seq[a:b] for 0 <= a, 0 <= b
PySlice(seq, a, b) ==
    LET lo == Min(a, Len(seq))
        hi == Min(b, Len(seq))
    IN  [k \in 1..Max(0, hi - lo) |-> seq[lo + k]]

RECURSIVE FSum(_)
FSum(seq) == IF seq = <<>> THEN Num(0) ELSE FAdd(Head(seq), FSum(Tail(seq)))

\* np.mean; of an empty slice it is 0/0, NaN
Mean(seq) == FDiv(FSum(seq), Num(Len(seq)))

\* lines 55-65
is_counter_causal(ms, changepoint) ==
    LET prev_changepoint == Max(0, changepoint - 1)
        next_changepoint == Min(changepoint + 1, Len(ms) - 1)
        prev_slopes == Mean(PySlice(ms, prev_changepoint, changepoint))
        next_slopes == Mean(PySlice(ms, changepoint, next_changepoint))
    IN  FGt(prev_slopes, next_slopes)

\* line 81: np.where(np.abs(my_slopes) > 1e-8)[0]
SlopeCut == Fin(1, 100000000)

RECURSIVE NonzeroIdx(_, _)
NonzeroIdx(sl, n) ==
    IF n = 0 THEN <<>>
    ELSE IF FGt(FAbs(sl[n]), SlopeCut)
         THEN Append(NonzeroIdx(sl, n - 1), n - 1)
         ELSE NonzeroIdx(sl, n - 1)

\* line 84: my_slopes /= np.abs(my_slopes)
Signs(sl) == [k \in 1..Len(sl) |-> FDiv(sl[k], FAbs(sl[k]))]

\* the length check with 2 in place of 3
TooShortBelowTwo(ms) == Len(ms) < 2

\* line 85
TooShort(ms) == Len(ms) < 3

\* the members of a set of integers in ascending order
AscSeq(S) ==
    [k \in 1..Cardinality(S) |->
        CHOOSE x \in S : Cardinality({y \in S : y < x}) = k - 1]

\* what the changepoint detection may return for a sequence of length n: any
\* set of its indices, in order (whatever the probability threshold)
DetectorOutputs(n) == {AscSeq(S) : S \in SUBSET (0..(n - 1))}

NmColumns ==
    {[k \in 1..NmSamples |-> step * (k - 1)] : step \in XSteps}
        \cup {[k \in 1..NmSamples |-> step * (NmSamples - k)] : step \in XSteps}

InitNonMono ==
    /\ pc = "nm_loop"
    /\ np_invalid \in ErrModes
    /\ invalid_before = np_invalid
    /\ x_arr = <<>> /\ y_arr = <<>>
    /\ slopes = <<>>
    /\ sorted_x = <<>> /\ sorted_y = <<>> /\ y_true = <<>> /\ min_samples = 0
    /\ changepoints = <<>> /\ i = 0 /\ window = <<>> /\ log_p_diff = Num(0)
    /\ discontinuities = <<>>
    /\ data_x = <<>> /\ embedding = <<>> /\ order = <<>>
    /\ ebm_y_true = <<>> /\ j = 0 /\ ebm_discontinuities = <<>>
    /\ discontinuities_df = <<>>
    /\ counter_causal_only \in BOOLEAN
    /\ my_slopes = <<>> /\ sorted_x_nz = <<>> /\ detected = <<>> /\ cp_pos = 0
    /\ results = <<>> /\ det_calls = <<>> /\ results_df = <<>>

\* lines 74 (column j of calculate_slopes, lines 47-50) and 79-84: the feature's
\* column and embedding are read, its slopes computed, cut and reduced to signs
NmFeature ==
    /\ pc = "nm_loop"
    /\ j < NumFeatures
    /\ \E col \in NmColumns :
          \E emb \in [1..NmSamples -> Yvals] :
              /\ data_x' = col
              /\ embedding' = emb
              /\ order' = ArgSort(col)
    /\ slopes' = calc_slopes(Take(data_x', order'), Take(embedding', order'))
    /\ np_invalid' = "warn"
    /\ LET nonzero_idx == NonzeroIdx(slopes', Len(slopes'))
       IN  /\ sorted_x_nz' = Take(Take(data_x', order'), nonzero_idx)
           /\ my_slopes' = Signs(Take(slopes', nonzero_idx))
    /\ pc' = "nm_check"
    /\ UNCHANGED <<calcVars, sortedVars, loopVars, ebmVars, counter_causal_only,
                   detected, cp_pos, results, det_calls, results_df>>

\* lines 85-86: too few signs, the feature is skipped
NmSkip ==
    /\ pc = "nm_check"
    /\ TooShort(my_slopes)
    /\ j' = j + 1
    /\ pc' = "nm_loop"
    /\ data_x' = <<>> /\ embedding' = <<>> /\ order' = <<>> /\ slopes' = <<>>
    /\ my_slopes' = <<>> /\ sorted_x_nz' = <<>>
    /\ UNCHANGED <<np_invalid, calcVars, sortedVars, loopVars, ebm_y_true,
                   ebm_discontinuities, discontinuities_df, counter_causal_only,
                   detected, cp_pos, results, det_calls, results_df>>

\* lines 87-89: det.find_changepoints(my_slopes, prob_threshold=prob_threshold)
NmDetect ==
    /\ pc = "nm_check"
    /\ ~TooShort(my_slopes)
    /\ \E cps \in DetectorOutputs(Len(my_slopes)) : detected' = cps
    /\ cp_pos' = 0
    /\ det_calls' = Append(det_calls, j)
    /\ pc' = "nm_cps"
    /\ UNCHANGED <<np_invalid, calcVars, slopes, sortedVars, loopVars, featureVars,
                   ebmVars, counter_causal_only, my_slopes, sorted_x_nz, results,
                   results_df>>

\* lines 90-92: one iteration of the loop over the detected changepoints
NmChangepoint ==
    /\ pc = "nm_cps"
    /\ cp_pos < Len(detected)
    /\ LET changepoint == At(detected, cp_pos)
       IN  results' =
             IF counter_causal_only /\ ~is_counter_causal(my_slopes, changepoint)
             THEN results
             ELSE Append(results,
                         <<PredictorNames[j + 1], Num(At(sorted_x_nz, changepoint))>>)
    /\ cp_pos' = cp_pos + 1
    /\ UNCHANGED <<pc, np_invalid, calcVars, slopes, sortedVars, loopVars,
                   featureVars, ebmVars, counter_causal_only, my_slopes,
                   sorted_x_nz, detected, det_calls, results_df>>

\* the loop of line 87 is exhausted; the iteration's locals are dead and cleared
NmFeatureDone ==
    /\ pc = "nm_cps"
    /\ cp_pos >= Len(detected)
    /\ j' = j + 1
    /\ pc' = "nm_loop"
    /\ data_x' = <<>> /\ embedding' = <<>> /\ order' = <<>> /\ slopes' = <<>>
    /\ my_slopes' = <<>> /\ sorted_x_nz' = <<>> /\ detected' = <<>> /\ cp_pos' = 0
    /\ UNCHANGED <<np_invalid, calcVars, sortedVars, loopVars, ebm_y_true,
                   ebm_discontinuities, discontinuities_df, counter_causal_only,
                   results, det_calls, results_df>>

\* lines 93-97.  np.array(results) of [name, value] pairs is an array of
\* strings; pd.DataFrame(np.array([]), columns=<two names>) raises ValueError.
NmReturn ==
    /\ pc = "nm_loop"
    /\ j >= NumFeatures
    /\ IF results = <<>>
       THEN pc' = "ValueError" /\ UNCHANGED results_df
       ELSE /\ results_df' =
                 [r \in 1..Len(results) |-> <<results[r][1], FloatStr(results[r][2])>>]
            /\ pc' = "nm_returned"
    /\ UNCHANGED <<np_invalid, calcVars, slopes, sortedVars, loopVars, featureVars,
                   ebmVars, counter_causal_only, nmLocals, results, det_calls>>

NextNonMono ==
    NmFeature \/ NmSkip \/ NmDetect \/ NmChangepoint \/ NmFeatureDone \/ NmReturn

SpecNonMono == InitNonMono /\ [][NextNonMono]_vars

\* the sign sequence has at its 0-based index k the sign s
SignAt(ms, k, sgn) == At(ms, k) = Num(sgn)

\* C5: without counter_causal_only every detected changepoint gives a row; with
\* it a changepoint c gives a row exactly when meanPrev > meanNext, so that a
\* change from +1 at c-1 to -1 at c is kept and one from -1 to +1 is dropped, at
\* every index the detector can return.
C5_CounterCausalFilter ==
    [][(pc = "nm_cps" /\ cp_pos < Len(detected)) =>
        LET c == At(detected, cp_pos)
            kept == Len(results') = Len(results) + 1
            meanPrev == Mean(PySlice(my_slopes, Max(0, c - 1), c))
            meanNext == Mean(PySlice(my_slopes, c, Min(c + 1, Len(my_slopes) - 1)))
        IN  /\ ~counter_causal_only => kept
            /\ counter_causal_only => (kept <=> FGt(meanPrev, meanNext))
            /\ (counter_causal_only /\ c >= 1
                    /\ SignAt(my_slopes, c - 1, 1) /\ SignAt(my_slopes, c, -1))
                  => kept
            /\ (counter_causal_only /\ c >= 1
                    /\ SignAt(my_slopes, c - 1, -1) /\ SignAt(my_slopes, c, 1))
                  => ~kept]_vars

\* the number of slopes of the current feature above the 1e-8 cut
InformativeSlopes ==
    Cardinality({k \in 1..Len(slopes) : FGt(FAbs(slopes[k]), Fin(1, 100000000))})

RowsOf(predictor) == {r \in 1..Len(results) : results[r][1] = predictor}

InList(x, seq) == \E k \in 1..Len(seq) : seq[k] = x

\* C6: a feature with fewer than 3 slopes above 1e-8 in magnitude gives no
\* row and the detector is not called for it; the rows of the other features
\* stay as they are.
C6_ShortFeatureSkipped ==
    /\ []((pc \in {"nm_check", "nm_cps"} /\ InformativeSlopes < 3) =>
            /\ ~InList(j, det_calls)
            /\ RowsOf(PredictorNames[j + 1]) = {})
    /\ [][(pc = "nm_check" /\ InformativeSlopes < 3) =>
            /\ results' = results
            /\ det_calls' = det_calls
            /\ j' = j + 1 /\ pc' = "nm_loop"]_vars

\* the second feature was skipped (the detector ran for the first one only)
\* and the rows of the first feature are still there
C6_Witness ==
    /\ pc = "nm_loop"
    /\ j = 2
    /\ det_calls = <<0>>
    /\ RowsOf(PredictorNames[1]) # {}
    /\ RowsOf(PredictorNames[2]) = {}

====
